---- MODULE Spec2Model ----
(***************************************************************************)
(* Model of the "atendimento" record service: route -> controller ->       *)
(* model -> connection pool -> table.                                      *)
(*                                                                         *)
(* JavaScript values are modelled by what the code can observe of them:    *)
(*   - a text field (nome, profissional, observacoes) is a record          *)
(*     [t |-> "undef" | "num" | "str", s |-> sequence of characters];      *)
(*     "num" stands for a truthy value that is not a string;               *)
(*   - the data field is [k |-> "absent" | "iso" | "junk", ymd, txt]:      *)
(*     an ISO date <<y, m, d>>, or a truthy text that is not a date;       *)
(*   - tipo is a string, "" standing for a missing one;                    *)
(*   - an error message is a sequence of text fragments.                   *)
(*                                                                         *)
(* Specifications:                                                         *)
(*   Spec            one request at a time, every input;                   *)
(*   SpecConcurrent  requests in flight together, few inputs;              *)
(*   SpecLive        SpecConcurrent with the store and the event loop      *)
(*                   making progress;                                      *)
(*   SpecShutdown    requests and the termination signals;                 *)
(*   SpecPure        validate and sanitize applied to any object;          *)
(*   SpecClient      the browser's edit form over one stored record.       *)
(***************************************************************************)
EXTENDS Integers, Sequences, FiniteSets, TLC

VARIABLES table, seq, req, inUse, wire, orig, gone, proc, ended, calc, client

vars == <<table, seq, req, inUse, wire, orig, gone, proc, ended, calc, client>>

\* what the request handlers and the query pipeline never touch: the process and
\* its pools, a function under evaluation, the browser's edit form
aside == <<proc, ended, calc, client>>

\* ------------------------------------------------------------------ bounds
\* MaxId: rows the serial specification inserts; MaxInserts: rows the concurrent
\* one inserts; MaxInFlight: its requests in flight; PoolSize: connections of the pool
MaxId == 2
MaxInserts == 1
MaxInFlight == 2
PoolSize == 2

\* request slots; the serial specification uses the first
Slots == 1..MaxInFlight
Serial == {1}

\* ------------------------------------------------------------ input values
Undef == [t |-> "undef", s |-> <<>>]
Num == [t |-> "num", s |-> <<>>]
Str(s) == [t |-> "str", s |-> s]

NomeInputs == {Undef, Num, Str(<<>>), Str(<<" ">>), Str(<<"a">>)}
ProfissionalInputs == {Undef, Num, Str(<<" ">>), Str(<<" ", "a">>)}
ObservacoesInputs == {Undef, Num, Str(<<" ">>)}

NoData == [k |-> "absent", ymd |-> <<>>, txt |-> ""]
IsoDate(y, m, d) == [k |-> "iso", ymd |-> <<y, m, d>>, txt |-> ""]
Junk(txt) == [k |-> "junk", ymd |-> <<>>, txt |-> txt]

DataInputs == {NoData, Junk("abc"), Junk("Validation failed"), IsoDate(2024, 1, 1)}

TipoInputs == {"", "Outro", "Psicológico"}

\* request bodies: every combination of the text fields with a good data and tipo,
\* every combination of data and tipo with good text fields, bodies that are wrong
\* in a text field and in tipo at once, and a second good body that differs from
\* the first in every field
Bodies ==
    [nome : NomeInputs, profissional : ProfissionalInputs,
     data : {IsoDate(2024, 1, 1)}, tipo : {"Psicológico"},
     observacoes : ObservacoesInputs]
    \cup [nome : {Str(<<"a">>)}, profissional : {Str(<<" ", "a">>)},
          data : DataInputs, tipo : TipoInputs, observacoes : {Undef}]
    \cup [nome : {Num, Str(<<"a">>)}, profissional : {Str(<<" ", "a">>)},
          data : {IsoDate(2024, 1, 1)}, tipo : {"Outro"},
          observacoes : {Undef, Num}]
    \cup {[nome |-> Str(<<" ", "b", " ">>), profissional |-> Str(<<"d">>),
           data |-> IsoDate(2024, 6, 1), tipo |-> "Assistência Social",
           observacoes |-> Str(<<"c", " ">>)]}

IdParams == {<<"1">>, <<"2">>, <<"3">>, <<"x">>, <<"2", "x">>, <<"x", "2">>}

Methods == {"GET", "POST", "PUT", "DELETE", "PATCH"}

\* ------------------------------------------------------------ pure helpers
Truthy(v) == v.t = "num" \/ (v.t = "str" /\ v.s # <<>>)

RECURSIVE TrimLeft(_)
TrimLeft(s) == IF s # <<>> /\ Head(s) = " " THEN TrimLeft(Tail(s)) ELSE s

RECURSIVE TrimRight(_)
TrimRight(s) ==
    IF s # <<>> /\ s[Len(s)] = " " THEN TrimRight(SubSeq(s, 1, Len(s) - 1)) ELSE s

TrimOnce(s) ==
    LET l == IF s # <<>> /\ Head(s) = " " THEN Tail(s) ELSE s
    IN IF l # <<>> /\ l[Len(l)] = " " THEN SubSeq(l, 1, Len(l) - 1) ELSE l

\* String.prototype.trim
Trim(s) == TrimRight(TrimLeft(s))

Includes(msg, fragment) == \E i \in DOMAIN msg : msg[i] = fragment

\* ------------------------------------------------- AtendimentoModel (pure)
\* value.trim() on a truthy value that is not a string: TypeError
TrimThrows(v) == Truthy(v) /\ v.t # "str"

tiposValidos == {"Psicológico", "Pedagógico", "Assistência Social"}

\* nome ? nome.trim() : ''
SanitizeText(v) == IF Truthy(v) THEN Str(Trim(v.s)) ELSE Str(<<>>)

SanitizeThrows(data) ==
    TrimThrows(data.nome) \/ TrimThrows(data.profissional) \/ TrimThrows(data.observacoes)

sanitizeAtendimentoData(data) ==
    [nome |-> SanitizeText(data.nome),
     profissional |-> SanitizeText(data.profissional),
     data |-> data.data,
     tipo |-> data.tipo,
     observacoes |-> SanitizeText(data.observacoes)]

TextMissingUndefinedOnly(v) == v.t = "undef"

\* !value || value.trim().length === 0
TextMissing(v) == ~Truthy(v) \/ Len(Trim(v.s)) = 0

ValidateThrows(data) == TrimThrows(data.nome) \/ TrimThrows(data.profissional)

ValidationErrors(data) ==
    (IF TextMissing(data.nome) THEN <<"Nome é obrigatório">> ELSE <<>>)
    \o (IF TextMissing(data.profissional) THEN <<"Profissional é obrigatório">> ELSE <<>>)
    \o (IF data.data.k = "absent" THEN <<"Data é obrigatória">> ELSE <<>>)
    \o (IF data.tipo = "" \/ data.tipo \notin tiposValidos
        THEN <<"Tipo deve ser: Psicológico, Pedagógico ou Assistência Social">>
        ELSE <<>>)

validateAtendimentoData(data) ==
    [isValid |-> Len(ValidationErrors(data)) = 0, errors |-> ValidationErrors(data)]

\* new Error(`Validation failed: ${validation.errors.join(', ')}`)
ValidationFailure(errors) == <<"Validation failed">> \o errors

\* ------------------------------------------------------------- the table
NoRow == [id |-> 0, nome |-> <<>>, profissional |-> <<>>, data |-> <<>>,
          tipo |-> "", observacoes |-> <<>>]

Ids == {r.id : r \in table}

RowOf(id) == CHOOSE r \in table : r.id = id

\* a parameter bound to the DATE column: the store parses the text it is sent
DateInFails(d) == d.k # "iso"
DateIn(d) == d.ymd
DateInError(d) == <<"invalid input syntax for type date: ", d.txt>>

\* outcome of one query: rows, or the failure's message
Rows(rows) == [ok |-> TRUE, rows |-> rows, msg |-> <<>>]
Failure(msg) == [ok |-> FALSE, rows |-> <<>>, msg |-> msg]
NoOutcome == [ok |-> TRUE, rows |-> <<>>, msg |-> <<>>]

BeforeById(a, b) == a.id > b.id

\* ORDER BY data DESC, id DESC
Before(a, b) ==
    \/ a.data[1] > b.data[1]
    \/ a.data[1] = b.data[1] /\ a.data[2] > b.data[2]
    \/ a.data[1] = b.data[1] /\ a.data[2] = b.data[2] /\ a.data[3] > b.data[3]
    \/ a.data = b.data /\ a.id > b.id

RECURSIVE OrderRows(_)
OrderRows(rows) ==
    IF rows = {} THEN <<>>
    ELSE LET first == CHOOSE r \in rows : \A o \in rows \ {r} : Before(r, o)
         IN <<first>> \o OrderRows(rows \ {first})

\* SELECT id, nome, profissional, data, tipo, observacoes FROM atendimento ORDER BY ...
SelectAll(t) == OrderRows(t)

\* SELECT * FROM atendimento WHERE id = $1
SelectById(t, id) == OrderRows({r \in t : r.id = id})

InsertRowSwapped(id, d) ==
    [id |-> id, nome |-> d.profissional.s, profissional |-> d.nome.s,
     data |-> DateIn(d.data), tipo |-> d.tipo, observacoes |-> d.observacoes.s]

\* INSERT INTO atendimento (nome, profissional, data, tipo, observacoes) VALUES (...)
InsertRow(id, d) ==
    [id |-> id, nome |-> d.nome.s, profissional |-> d.profissional.s,
     data |-> DateIn(d.data), tipo |-> d.tipo, observacoes |-> d.observacoes.s]

UpdateRowKeepingOmitted(r, d) ==
    [id |-> r.id, nome |-> d.nome.s, profissional |-> d.profissional.s,
     data |-> DateIn(d.data), tipo |-> d.tipo,
     observacoes |-> IF d.observacoes.s = <<>> THEN r.observacoes ELSE d.observacoes.s]

\* UPDATE atendimento SET nome = $1, ... WHERE id = $6
UpdateRow(r, d) ==
    [id |-> r.id, nome |-> d.nome.s, profissional |-> d.profissional.s,
     data |-> DateIn(d.data), tipo |-> d.tipo, observacoes |-> d.observacoes.s]

\* tipo TEXT NOT NULL CHECK (tipo IN (...))
CheckViolated(d) == d.tipo \notin tiposValidos
CheckError == <<"violates check constraint">>

\* --------------------------------------------------- AtendimentoController
NaN == -1

DigitValue(c) == CASE c = "0" -> 0 [] c = "1" -> 1 [] c = "2" -> 2 [] c = "3" -> 3
                   [] c = "4" -> 4 [] c = "5" -> 5 [] c = "6" -> 6 [] c = "7" -> 7
                   [] c = "8" -> 8 [] c = "9" -> 9 [] OTHER -> NaN

RECURSIVE ParseDigits(_, _)
ParseDigits(s, acc) ==
    IF s = <<>> \/ DigitValue(Head(s)) = NaN THEN acc
    ELSE ParseDigits(Tail(s), acc * 10 + DigitValue(Head(s)))

\* parseInt(id): the value of the leading digits, NaN when there is none
parseInt(s) == IF s = <<>> \/ DigitValue(Head(s)) = NaN THEN NaN ELSE ParseDigits(s, 0)

\* !id || isNaN(parseInt(id))
IdRejected(idp) == idp = <<>> \/ parseInt(idp) = NaN

EnvelopeKeys == {"success", "data", "message", "errors", "timestamp"}

\* the body's data: null, one formatted record, a list of them, or { id }
Null == [kind |-> "null", items |-> <<>>]

formatResponse(success, data, message, errors) ==
    [keys |-> EnvelopeKeys, success |-> success, data |-> data,
     message |-> message, errors |-> errors]

\* new Date(dateString).toLocaleDateString('pt-BR'): dd/mm/yyyy
formatDateForDisplay(date) ==
    IF date = <<>> THEN <<>> ELSE <<date[3], date[2], date[1]>>

formatAtendimentoResponse(row) == [row EXCEPT !.data = formatDateForDisplay(row.data)]

One(row) == [kind |-> "one", items |-> <<formatAtendimentoResponse(row)>>]
List(rows) ==
    [kind |-> "list", items |-> [i \in DOMAIN rows |-> formatAtendimentoResponse(rows[i])]]
IdOnly(row) == [kind |-> "id", items |-> <<[NoRow EXCEPT !.id = row.id]>>]

\* what is known of the request a response answers (history, not program state)
NoCtx == [op |-> "", numeric |-> TRUE, class |-> "none", nq |-> 0, failure |-> <<>>,
          hit |-> FALSE, wasGone |-> FALSE, orig |-> NoRow]

Response(status, body, ctx) == [status |-> status, body |-> body, ctx |-> ctx]

NoWire == Response(0, [keys |-> {}, success |-> FALSE, data |-> Null,
                       message |-> <<>>, errors |-> <<>>], NoCtx)

InvalidId(ctx) ==
    Response(400, formatResponse(FALSE, Null, <<"Invalid ID parameter">>,
                                 <<<<"ID must be a valid number">>>>), ctx)

NotFoundAs200(ctx) ==
    Response(200, formatResponse(FALSE, Null, <<"Atendimento not found">>, <<>>), ctx)

NotFound(ctx) ==
    Response(404, formatResponse(FALSE, Null, <<"Atendimento not found">>, <<>>), ctx)

ErrorMessageOf(op) ==
    CASE op = "findAll" -> "Error retrieving atendimentos"
      [] op = "findById" -> "Error retrieving atendimento"
      [] op = "create" -> "Error creating atendimento"
      [] op = "update" -> "Error updating atendimento"
      [] op = "delete" -> "Error deleting atendimento"

CaughtUnanswered(op, msg, ctx) == NoWire

\* the catch block of each controller method
Caught(op, msg, ctx) ==
    IF op \in {"create", "update"} /\ Includes(msg, "Validation failed")
    THEN Response(400, formatResponse(FALSE, Null, <<"Validation error">>, <<msg>>), ctx)
    ELSE Response(500, formatResponse(FALSE, Null, <<ErrorMessageOf(op)>>, <<msg>>), ctx)

\* the try block of each controller method, once the model call has returned
Returned(op, rows, ctx) ==
    CASE op = "findAll" ->
           Response(200, formatResponse(TRUE, List(rows),
                                        <<"Atendimentos retrieved successfully">>, <<>>), ctx)
      [] op = "findById" ->
           IF rows = <<>> THEN NotFound(ctx)
           ELSE Response(200, formatResponse(TRUE, One(rows[1]),
                                             <<"Atendimento retrieved successfully">>, <<>>), ctx)
      [] op = "create" ->
           Response(201, formatResponse(TRUE, One(rows[1]),
                                        <<"Atendimento created successfully">>, <<>>), ctx)
      [] op = "update" ->
           IF rows = <<>> THEN NotFound(ctx)
           ELSE Response(200, formatResponse(TRUE, One(rows[1]),
                                             <<"Atendimento updated successfully">>, <<>>), ctx)
      [] op = "delete" ->
           IF rows = <<>> THEN NotFound(ctx)
           ELSE Response(200, formatResponse(TRUE, IdOnly(rows[1]),
                                             <<"Atendimento deleted successfully">>, <<>>), ctx)

\* ------------------------------------------------------------------ Server
Mounts == {"atendimentos", "atendimento", "outro"}

\* app.use('/atendimentos', router); app.use('/atendimento', router); router.get('/') ...
Route(method, mount, hasId) ==
    IF mount = "outro" THEN "none"
    ELSE CASE method = "GET" /\ ~hasId -> "findAll"
           [] method = "GET" /\ hasId -> "findById"
           [] method = "POST" /\ ~hasId -> "create"
           [] method = "PUT" /\ hasId -> "update"
           [] method = "DELETE" /\ hasId -> "delete"
           [] OTHER -> "none"

Routed(op, hasId) == \E m \in Methods, mount \in Mounts : Route(m, mount, hasId) = op

\* app.use('*', ...): res.status(404).json({ success, message, timestamp })
RouteNotFound ==
    Response(404, [keys |-> {"success", "message", "timestamp"}, success |-> FALSE,
                   data |-> Null, message |-> <<"Rota não encontrada">>, errors |-> <<>>],
             NoCtx)

\* app.use((error, req, res, next) => ...): { success, message, errors, timestamp }
GlobalError(status, msg) ==
    Response(status, [keys |-> {"success", "message", "errors", "timestamp"},
                      success |-> FALSE, data |-> Null, message |-> msg,
                      errors |-> <<msg>>], NoCtx)

\* ----------------------------------------------------------------- requests
NoBody == [nome |-> Str(<<>>), profissional |-> Str(<<>>), data |-> NoData,
           tipo |-> "", observacoes |-> Str(<<>>)]

\* a request slot: where the request is (pc), the model call it makes, and the
\* history its response is judged by:
\*   numeric  the id of the path is made of digits only
\*   class    the body is "valid", "breaks" a rule of the record, or is "untyped"
\*   nq       queries sent to the store
\*   hit      the id matched a row when the query ran
\*   wasGone  the id had been deleted when the query ran
\*   orig     the record as created, when no update or delete touched it since
Idle == [pc |-> "idle", op |-> "", id |-> 0, d |-> NoBody, res |-> NoOutcome,
         nq |-> 0, numeric |-> TRUE, class |-> "none", hit |-> FALSE,
         wasGone |-> FALSE, orig |-> NoRow]

Call(op, id, d, numeric, class) ==
    [Idle EXCEPT !.pc = "connect", !.op = op, !.id = id, !.d = d,
                 !.numeric = numeric, !.class = class]

CtxOf(r) == [op |-> r.op, numeric |-> r.numeric, class |-> r.class, nq |-> r.nq,
             failure |-> r.res.msg, hit |-> r.hit, wasGone |-> r.wasGone,
             orig |-> r.orig]

Digits == {"0", "1", "2", "3", "4", "5", "6", "7", "8", "9"}
IsNumeric(idp) == idp # <<>> /\ \A i \in DOMAIN idp : idp[i] \in Digits

\* a body breaks a rule of the record: a required text missing or blank, no data,
\* or a tipo outside the three values
BreaksRule(body) ==
    \/ body.nome.t = "undef" \/ (body.nome.t = "str" /\ Trim(body.nome.s) = <<>>)
    \/ body.profissional.t = "undef"
    \/ (body.profissional.t = "str" /\ Trim(body.profissional.s) = <<>>)
    \/ body.data.k = "absent"
    \/ body.tipo \notin {"Psicológico", "Pedagógico", "Assistência Social"}

\* a text field holds something that is neither text nor missing
Untyped(body) ==
    \E f \in {"nome", "profissional", "observacoes"} : body[f].t \notin {"str", "undef"}

ClassOf(body) ==
    IF BreaksRule(body) THEN "breaks" ELSE IF Untyped(body) THEN "untyped" ELSE "valid"

PendingInserts == Cardinality({s \in Slots : req[s].op = "create"
                                             /\ req[s].pc \in {"connect", "query"}})

Answer(r) == wire = NoWire /\ wire' = r

\* the two Database objects, each with a pool of its own: the Server's
\* (this.database) and the AtendimentoModel's (this.db), which runs the queries
ServerPool == "server.database"
ModelPool == "model.db"

\* the process has not called process.exit
Running == proc \in {"running", "closing"}

\* no function under evaluation, no edit form open
NoCalc == [fn |-> "none"]
NoClient == [at |-> "none"]

\* the server once started: an empty table, both pools open
Boot ==
    /\ table = {}
    /\ seq = 0
    /\ req = [s \in Slots |-> Idle]
    /\ inUse = 0
    /\ wire = NoWire
    /\ orig = {}
    /\ gone = {}
    /\ proc = "running"
    /\ ended = {}

Init ==
    /\ Boot
    /\ calc = NoCalc
    /\ client = NoClient

\* GET /atendimentos
getAllAtendimentos(s) ==
    /\ Running
    /\ wire = NoWire
    /\ req[s].pc = "idle"
    /\ Routed("findAll", FALSE)
    /\ req' = [req EXCEPT ![s] = Call("findAll", 0, NoBody, TRUE, "none")]
    /\ UNCHANGED <<table, seq, inUse, wire, orig, gone, aside>>

\* GET /atendimento/:id
getAtendimentoById(s, idp) ==
    /\ Running
    /\ wire = NoWire
    /\ req[s].pc = "idle"
    /\ Routed("findById", TRUE)
    /\ IF IdRejected(idp)
       THEN /\ Answer(InvalidId([NoCtx EXCEPT !.op = "findById",
                                              !.numeric = IsNumeric(idp)]))
            /\ UNCHANGED req
       ELSE /\ req' = [req EXCEPT ![s] = Call("findById", parseInt(idp), NoBody,
                                              IsNumeric(idp), "none")]
            /\ UNCHANGED wire
    /\ UNCHANGED <<table, seq, inUse, orig, gone, aside>>

\* AtendimentoModel.create / update up to the query: sanitize, validate, throw
ModelWrite(s, op, id, numeric, body, cap) ==
    LET ctx == [NoCtx EXCEPT !.op = op, !.numeric = numeric, !.class = ClassOf(body)]
        d == sanitizeAtendimentoData(body)
        v == validateAtendimentoData(d)
    IN IF SanitizeThrows(body)
       THEN /\ Answer(Caught(op, <<"trim is not a function">>, ctx))
            /\ UNCHANGED req
       ELSE IF ~v.isValid
            THEN /\ Answer(Caught(op, ValidationFailure(v.errors), ctx))
                 /\ UNCHANGED req
            ELSE /\ op = "create" => seq + PendingInserts < cap
                 /\ req' = [req EXCEPT ![s] = Call(op, id, d, numeric, ClassOf(body))]
                 /\ UNCHANGED wire

\* POST /atendimento; cap bounds the ids the sequence hands out
createAtendimento(s, body, cap) ==
    /\ Running
    /\ wire = NoWire
    /\ req[s].pc = "idle"
    /\ Routed("create", FALSE)
    /\ ModelWrite(s, "create", 0, TRUE, body, cap)
    /\ UNCHANGED <<table, seq, inUse, orig, gone, aside>>

\* PUT /atendimento/:id
updateAtendimento(s, idp, body) ==
    /\ Running
    /\ wire = NoWire
    /\ req[s].pc = "idle"
    /\ Routed("update", TRUE)
    /\ IF IdRejected(idp)
       THEN /\ Answer(InvalidId([NoCtx EXCEPT !.op = "update",
                                              !.numeric = IsNumeric(idp),
                                              !.class = ClassOf(body)]))
            /\ UNCHANGED req
       ELSE ModelWrite(s, "update", parseInt(idp), IsNumeric(idp), body, 0)
    /\ UNCHANGED <<table, seq, inUse, orig, gone, aside>>

\* DELETE /atendimento/:id
deleteAtendimento(s, idp) ==
    /\ Running
    /\ wire = NoWire
    /\ req[s].pc = "idle"
    /\ Routed("delete", TRUE)
    /\ IF IdRejected(idp)
       THEN /\ Answer(InvalidId([NoCtx EXCEPT !.op = "delete",
                                              !.numeric = IsNumeric(idp)]))
            /\ UNCHANGED req
       ELSE /\ req' = [req EXCEPT ![s] = Call("delete", parseInt(idp), NoBody,
                                              IsNumeric(idp), "none")]
            /\ UNCHANGED wire
    /\ UNCHANGED <<table, seq, inUse, orig, gone, aside>>

\* a verb and path no route matches: the '*' handler
UnknownRoute ==
    /\ Running
    /\ \E m \in Methods, mount \in Mounts, hasId \in BOOLEAN : Route(m, mount, hasId) = "none"
    /\ Answer(RouteNotFound)
    /\ UNCHANGED <<table, seq, req, inUse, orig, gone, aside>>

\* express.json() rejects the body: next(err) with err.status = 400
MalformedJson ==
    /\ Running
    /\ Answer(GlobalError(400, <<"Unexpected token in JSON">>))
    /\ UNCHANGED <<table, seq, req, inUse, orig, gone, aside>>

\* ---------------------------------------------------------- Database.query
\* const client = await this.pool.connect(); client.query(text, params) is sent
Connect(s) ==
    /\ Running
    /\ wire = NoWire
    /\ req[s].pc = "connect"
    /\ ModelPool \notin ended
    /\ inUse < PoolSize
    /\ inUse' = inUse + 1
    /\ req' = [req EXCEPT ![s].pc = "query", ![s].nq = @ + 1]
    /\ UNCHANGED <<table, seq, wire, orig, gone, aside>>

\* pool.connect() rejects: nothing was acquired, the error reaches the controller
ConnectFail(s) ==
    /\ Running
    /\ req[s].pc = "connect"
    /\ Answer(Caught(req[s].op, <<"connect ECONNREFUSED">>,
                     [CtxOf(req[s]) EXCEPT !.failure = <<"connect ECONNREFUSED">>]))
    /\ req' = [req EXCEPT ![s] = Idle]
    /\ UNCHANGED <<table, seq, inUse, orig, gone, aside>>

Stored(s, out) == req' = [req EXCEPT ![s].pc = "release", ![s].res = out]

ExecFindAll(s) ==
    /\ Stored(s, Rows(SelectAll(table)))
    /\ UNCHANGED <<table, seq, orig, gone>>

ExecFindById(s) ==
    /\ req' = [req EXCEPT ![s].pc = "release",
                          ![s].res = Rows(SelectById(table, req[s].id)),
                          ![s].wasGone = req[s].id \in gone,
                          ![s].orig = IF \E o \in orig : o.id = req[s].id
                                      THEN CHOOSE o \in orig : o.id = req[s].id
                                      ELSE NoRow]
    /\ UNCHANGED <<table, seq, orig, gone>>

NextValMaxPlusOne(last, t) ==
    IF t = {} THEN 1 ELSE (CHOOSE r \in t : \A o \in t : o.id <= r.id).id + 1

\* id SERIAL PRIMARY KEY: nextval of the table's sequence
NextVal(last, t) == last + 1

ExecInsert(s) ==
    LET d == req[s].d
        row == InsertRow(NextVal(seq, table), d)
        asCreated == [id |-> NextVal(seq, table), nome |-> d.nome.s,
                      profissional |-> d.profissional.s, data |-> d.data.ymd,
                      tipo |-> d.tipo, observacoes |-> d.observacoes.s]
    IN IF DateInFails(d.data)
       THEN /\ Stored(s, Failure(DateInError(d.data)))
            /\ UNCHANGED <<table, seq, orig, gone>>
       ELSE IF CheckViolated(d)
            THEN /\ Stored(s, Failure(CheckError))
                 /\ seq' = NextVal(seq, table)
                 /\ UNCHANGED <<table, orig, gone>>
            ELSE /\ req' = [req EXCEPT ![s].pc = "release", ![s].res = Rows(<<row>>),
                                       ![s].orig = asCreated]
                 /\ table' = table \cup {row}
                 /\ seq' = NextVal(seq, table)
                 /\ orig' = orig \cup {asCreated}
                 /\ UNCHANGED gone

ExecUpdate(s) ==
    LET d == req[s].d
        id == req[s].id
    IN IF DateInFails(d.data)
       THEN /\ Stored(s, Failure(DateInError(d.data)))
            /\ UNCHANGED <<table, seq, orig, gone>>
       ELSE IF id \notin Ids
            THEN /\ Stored(s, Rows(<<>>))
                 /\ UNCHANGED <<table, seq, orig, gone>>
            ELSE IF CheckViolated(d)
                 THEN /\ Stored(s, Failure(CheckError))
                      /\ UNCHANGED <<table, seq, orig, gone>>
                 ELSE /\ req' = [req EXCEPT ![s].pc = "release", ![s].hit = TRUE,
                                       ![s].res = Rows(<<UpdateRow(RowOf(id), d)>>),
                                       ![s].orig = IF \E o \in orig : o.id = id
                                                   THEN CHOOSE o \in orig : o.id = id
                                                   ELSE NoRow]
                      /\ table' = (table \ {RowOf(id)}) \cup {UpdateRow(RowOf(id), d)}
                      /\ orig' = {o \in orig : o.id # id}
                      /\ UNCHANGED <<seq, gone>>

DeleteRowsKept(t, id) == t

\* DELETE FROM atendimento WHERE id = $1 RETURNING *
DeleteRows(t, id) == {r \in t : r.id # id}

ExecDelete(s) ==
    LET id == req[s].id
    IN /\ req' = [req EXCEPT ![s].pc = "release", ![s].hit = id \in Ids,
                             ![s].res = Rows(SelectById(table, id))]
       /\ table' = DeleteRows(table, id)
       /\ gone' = IF id \in Ids THEN gone \cup {id} ELSE gone
       /\ orig' = {o \in orig : o.id # id}
       /\ UNCHANGED seq

\* the store executes the query the client sent
Exec(s) ==
    /\ Running
    /\ wire = NoWire
    /\ req[s].pc = "query"
    /\ CASE req[s].op = "findAll" -> ExecFindAll(s)
         [] req[s].op = "findById" -> ExecFindById(s)
         [] req[s].op = "create" -> ExecInsert(s)
         [] req[s].op = "update" -> ExecUpdate(s)
         [] req[s].op = "delete" -> ExecDelete(s)
    /\ UNCHANGED <<inUse, wire, aside>>

\* the query fails for a reason of the store or the connection; a failed INSERT
\* may already have drawn its id from the sequence
ExecFail(s) ==
    /\ Running
    /\ wire = NoWire
    /\ req[s].pc = "query"
    /\ Stored(s, Failure(<<"Connection terminated unexpectedly">>))
    /\ \/ UNCHANGED seq
       \/ req[s].op = "create" /\ seq' = NextVal(seq, table)
    /\ UNCHANGED <<table, inUse, wire, orig, gone, aside>>

ReleaseOnSuccess(n, out) == IF out.ok THEN n - 1 ELSE n

\* finally { client.release() }
Release(n, out) == n - 1

\* the result reaches Database.query: release, then the controller answers
Complete(s) ==
    /\ Running
    /\ req[s].pc = "release"
    /\ inUse' = Release(inUse, req[s].res)
    /\ Answer(IF req[s].res.ok
              THEN Returned(req[s].op, req[s].res.rows, CtxOf(req[s]))
              ELSE Caught(req[s].op, req[s].res.msg, CtxOf(req[s])))
    /\ req' = [req EXCEPT ![s] = Idle]
    /\ UNCHANGED <<table, seq, orig, gone, aside>>

\* res.json(...) writes the response out before the next event is handled
Flush ==
    /\ Running
    /\ wire # NoWire
    /\ wire' = NoWire
    /\ UNCHANGED <<table, seq, req, inUse, orig, gone, aside>>

\* the requests the router hands to the controller, with bodies and ids drawn
\* from B and I
Handlers(S, B, I, cap) ==
    \/ \E s \in S : getAllAtendimentos(s)
    \/ \E s \in S, idp \in I : getAtendimentoById(s, idp)
    \/ \E s \in S, body \in B : createAtendimento(s, body, cap)
    \/ \E s \in S, idp \in I, body \in B : updateAtendimento(s, idp, body)
    \/ \E s \in S, idp \in I : deleteAtendimento(s, idp)

Pipeline(S) ==
    \/ \E s \in S : Connect(s)
    \/ \E s \in S : ConnectFail(s)
    \/ \E s \in S : Exec(s)
    \/ \E s \in S : ExecFail(s)
    \/ \E s \in S : Complete(s)
    \/ Flush

\* one request at a time, every input
Next ==
    \/ Handlers(Serial, Bodies, IdParams, MaxId)
    \/ UnknownRoute
    \/ MalformedJson
    \/ Pipeline(Serial)

Spec == Init /\ [][Next]_vars

\* requests in flight together, over few inputs
FewBodies == {b \in Bodies : /\ b.nome = Str(<<"a">>)
                            /\ b.observacoes = Undef
                            /\ b.data = IsoDate(2024, 1, 1)
                            /\ b.tipo \in {"Psicológico", "Outro"}}
FewIds == {<<"1">>}

NextConcurrent == Handlers(Slots, FewBodies, FewIds, MaxInserts) \/ Pipeline(Slots)

SpecConcurrent == Init /\ [][NextConcurrent]_vars

\* ----------------------------------- validate and sanitize on their own
\* the two static functions of AtendimentoModel applied to any object, as a
\* caller of the class can apply them
PureNome == {Undef, Num, Str(<<>>), Str(<<" ">>), Str(<<"a">>),
             Str(<<" ", " ", "a", " ">>)}
PureProfissional == {Undef, Num, Str(<<" ">>), Str(<<"a", " ", " ">>)}
PureData == {NoData, Junk("abc"), IsoDate(2024, 1, 1)}
PureTipo == {"", "Outro", "Psicológico", "Pedagógico"}
PureObservacoes == {Undef, Num, Str(<<" ", " ", "c">>)}

PureInputs == [nome : PureNome, profissional : PureProfissional, data : PureData,
               tipo : PureTipo, observacoes : PureObservacoes]

\* how a call ends: it throws, or it returns a value
Thrown == [thrown |-> TRUE]
Value(v) == [thrown |-> FALSE, value |-> v]
Pending == [thrown |-> FALSE]

CallSanitize(x) ==
    IF SanitizeThrows(x) THEN Thrown ELSE Value(sanitizeAtendimentoData(x))

CallValidate(x) ==
    IF ValidateThrows(x) THEN Thrown ELSE Value(validateAtendimentoData(x))

InitPure ==
    /\ Boot
    /\ client = NoClient
    /\ calc \in {[fn |-> "input", x |-> x, first |-> Pending, out |-> Pending] :
                   x \in PureInputs}

\* AtendimentoModel.sanitizeAtendimentoData(x)
Sanitize ==
    /\ calc.fn = "input"
    /\ calc' = [calc EXCEPT !.fn = "sanitize", !.out = CallSanitize(calc.x)]
    /\ UNCHANGED <<table, seq, req, inUse, wire, orig, gone, proc, ended, client>>

\* AtendimentoModel.validateAtendimentoData(x)
Validate ==
    /\ calc.fn = "input"
    /\ calc' = [calc EXCEPT !.fn = "validate", !.out = CallValidate(calc.x)]
    /\ UNCHANGED <<table, seq, req, inUse, wire, orig, gone, proc, ended, client>>

\* sanitizeAtendimentoData(sanitizeAtendimentoData(x)): the inner call's throw
\* is the throw of the whole
SanitizeAgain ==
    /\ calc.fn = "sanitize"
    /\ calc' = [calc EXCEPT !.fn = "sanitize twice", !.first = calc.out,
                            !.out = IF calc.out.thrown THEN Thrown
                                    ELSE CallSanitize(calc.out.value)]
    /\ UNCHANGED <<table, seq, req, inUse, wire, orig, gone, proc, ended, client>>

\* validateAtendimentoData(sanitizeAtendimentoData(x)), as create and update call it
ValidateSanitized ==
    /\ calc.fn = "sanitize"
    /\ calc' = [calc EXCEPT !.fn = "validate sanitized", !.first = calc.out,
                            !.out = IF calc.out.thrown THEN Thrown
                                    ELSE CallValidate(calc.out.value)]
    /\ UNCHANGED <<table, seq, req, inUse, wire, orig, gone, proc, ended, client>>

NextPure == Sanitize \/ Validate \/ SanitizeAgain \/ ValidateSanitized

SpecPure == InitPure /\ [][NextPure]_vars

\* ------------------------------------------------------- Server.shutdown
\* process.on('SIGTERM' | 'SIGINT', () => server.shutdown()): shutdown calls
\* this.database.close(), which starts pool.end() on the Server's pool
Signal ==
    /\ proc = "running"
    /\ proc' = "closing"
    /\ UNCHANGED <<table, seq, req, inUse, wire, orig, gone, ended, calc, client>>

\* a second signal while the first close is pending: pool.end() on a pool that is
\* ending rejects, the catch block calls process.exit(1)
SignalAgain ==
    /\ proc = "closing"
    /\ proc' = "exit 1"
    /\ UNCHANGED <<table, seq, req, inUse, wire, orig, gone, ended, calc, client>>

\* await this.database.close() resolves: the Server's pool, which holds no
\* checked-out client, has ended; process.exit(0)
shutdown ==
    /\ proc = "closing"
    /\ ended' = ended \cup {ServerPool}
    /\ proc' = "exit 0"
    /\ UNCHANGED <<table, seq, req, inUse, wire, orig, gone, calc, client>>

\* one request at a time over few inputs, and the termination signals
NextShutdown ==
    \/ Handlers(Serial, FewBodies, FewIds, MaxInserts)
    \/ Pipeline(Serial)
    \/ Signal
    \/ SignalAgain
    \/ shutdown

SpecShutdown == Init /\ [][NextShutdown]_vars

\* the requests in flight together, the store and the event loop doing their part:
\* a written response is flushed; a request waiting for a connection gets one or
\* an error (the pool serves its waiters in turn); a query sent is answered or
\* fails; the continuation of a settled query runs
Fairness ==
    /\ WF_vars(Flush)
    /\ \A s \in Slots : SF_vars(Connect(s) \/ ConnectFail(s))
    /\ \A s \in Slots : SF_vars(Exec(s) \/ ExecFail(s))
    /\ \A s \in Slots : SF_vars(Complete(s))

SpecLive == Init /\ [][NextConcurrent]_vars /\ Fairness

\* ------------------------------------------------- the browser's edit form
\* where the browser's clock stands against UTC: local midnight falls on the same
\* UTC day ("behind", "utc") or on the day before ("ahead")
TimeZones == {"behind", "utc", "ahead"}

InvalidDate == <<>>

DaysIn(y, m) ==
    CASE m \in {4, 6, 9, 11} -> 30
      [] m = 2 -> IF y % 4 = 0 THEN 29 ELSE 28
      [] OTHER -> 31

PrevDay(ymd) ==
    IF ymd[3] > 1 THEN <<ymd[1], ymd[2], ymd[3] - 1>>
    ELSE IF ymd[2] > 1 THEN <<ymd[1], ymd[2] - 1, DaysIn(ymd[1], ymd[2] - 1)>>
    ELSE <<ymd[1] - 1, 12, 31>>

\* new Date("a/b/y"): a text that is not ISO is read month first, at local
\* midnight; a month above 12 gives an Invalid Date
NewDate(text) ==
    IF text[1] \in 1..12 /\ text[2] \in 1..31
    THEN <<text[3], text[1], text[2]>>
    ELSE InvalidDate

\* date.toISOString().split('T')[0]: the day in UTC of the local midnight
ToISODay(date, tz) == IF tz = "ahead" THEN PrevDay(date) ELSE date

\* utils.formatDateForInput: throws a RangeError on an Invalid Date
formatDateForInputThrows(dateString) ==
    dateString # <<>> /\ NewDate(dateString) = InvalidDate

formatDateForInput(dateString, tz) ==
    IF dateString = <<>> THEN NoData
    ELSE LET ymd == ToISODay(NewDate(dateString), tz)
         IN IsoDate(ymd[1], ymd[2], ymd[3])

\* the fields of the edit form before fillEditForm has written them
EmptyForm == [id |-> 0, nome |-> <<>>, profissional |-> <<>>, data |-> NoData,
              tipo |-> "", observacoes |-> <<>>]

\* UIManager.fillEditForm: the fields are written in turn, so a throw at the
\* date leaves the date, tipo and observacoes as they were
fillEditForm(atendimento, tz) ==
    IF formatDateForInputThrows(atendimento.data)
    THEN [EmptyForm EXCEPT !.id = atendimento.id, !.nome = atendimento.nome,
                           !.profissional = atendimento.profissional]
    ELSE [id |-> atendimento.id, nome |-> atendimento.nome,
          profissional |-> atendimento.profissional,
          data |-> formatDateForInput(atendimento.data, tz),
          tipo |-> atendimento.tipo, observacoes |-> atendimento.observacoes]

\* utils.sanitizeFormData
sanitizeFormData(form) ==
    [nome |-> Str(Trim(form.nome)), profissional |-> Str(Trim(form.profissional)),
     data |-> form.data, tipo |-> form.tipo, observacoes |-> Str(Trim(form.observacoes))]

\* utils.validateFormData
validateFormData(data) ==
    /\ Truthy(data.nome) /\ Truthy(data.profissional)
    /\ data.data.k # "absent"
    /\ data.tipo # ""

\* the records a list can show: stored by a create or an update
ClientMonths == 1..12
ClientDays == {1, 12, 13, 28}
ClientRows ==
    {[id |-> 1, nome |-> <<"a">>, profissional |-> <<"a">>, data |-> <<2024, m, d>>,
      tipo |-> "Pedagógico", observacoes |-> o] :
        m \in ClientMonths, d \in ClientDays, o \in {<<>>, <<"c">>}}

\* the list is on screen with one stored record
InitClient ==
    /\ \E row \in ClientRows : table = {row} /\ orig = {row}
    /\ seq = 1
    /\ req = [s \in Slots |-> Idle]
    /\ inUse = 0
    /\ wire = NoWire
    /\ gone = {}
    /\ proc = "running"
    /\ ended = {}
    /\ calc = NoCalc
    /\ client \in {[at |-> "list", tz |-> tz] : tz \in TimeZones}

\* the edit button: GET /atendimento/:id, then the form is filled with the
\* record as the API formats it
handleEdit(id) ==
    /\ client.at = "list"
    /\ id \in Ids
    /\ client' = [at |-> "form", tz |-> client.tz, stored |-> RowOf(id),
                  threw |-> formatDateForInputThrows(
                                formatAtendimentoResponse(RowOf(id)).data),
                  form |-> fillEditForm(formatAtendimentoResponse(RowOf(id)),
                                        client.tz)]
    /\ UNCHANGED <<table, seq, req, inUse, wire, orig, gone, proc, ended, calc>>

\* the save button with the form as it was filled: the form is sanitized and
\* validated, then PUT /atendimento/:id, which sanitizes, validates and updates
handleEditFormSubmit ==
    /\ client.at = "form"
    /\ LET data == sanitizeFormData(client.form)
           id == client.form.id
           d == sanitizeAtendimentoData(data)
       IN IF ~validateFormData(data)
          THEN /\ client' = [client EXCEPT !.at = "refused"]
               /\ UNCHANGED <<table, orig>>
          ELSE IF ~validateAtendimentoData(d).isValid \/ id \notin Ids
               THEN /\ client' = [client EXCEPT !.at = "failed"]
                    /\ UNCHANGED <<table, orig>>
               ELSE /\ client' = [client EXCEPT !.at = "saved"]
                    /\ table' = (table \ {RowOf(id)}) \cup {UpdateRow(RowOf(id), d)}
                    /\ orig' = {o \in orig : o.id # id}
    /\ UNCHANGED <<seq, req, inUse, wire, gone, proc, ended, calc>>

NextClient == (\E id \in 1..MaxId : handleEdit(id)) \/ handleEditFormSubmit

SpecClient == InitClient /\ [][NextClient]_vars

\* -------------------------------------------------------------- properties
TheThreeTipos == {"Psicológico", "Pedagógico", "Assistência Social"}

Trimmed(s) == s # <<>> /\ s[1] # " " /\ s[Len(s)] # " "

WriteOps == {"create", "update"}
IdOps == {"findById", "update", "delete"}

\* C1: every stored record has a non-empty trimmed nome and profissional, a data,
\* and a tipo among the three values
StoredRecordsValid ==
    \A r \in table :
        /\ Trimmed(r.nome)
        /\ Trimmed(r.profissional)
        /\ Len(r.data) = 3
        /\ r.tipo \in TheThreeTipos

\* a trimmed record is stored and an update breaking a rule has just been refused
StoredRecordsValidWitness ==
    /\ \E r \in table : r.nome = <<"b">>
    /\ wire.ctx.op = "update" /\ wire.ctx.class = "breaks" /\ wire.status = 400

\* C2: a create, or an update with a well-formed id, whose body breaks a rule is
\* answered 400 and sends no query
InvalidBodyRefused ==
    (wire.ctx.op \in WriteOps /\ wire.ctx.numeric /\ wire.ctx.class = "breaks")
        => (wire.status = 400 /\ wire.ctx.nq = 0)

\* C3: a storage failure is answered 500 with its message in errors, after at most
\* one query; 400 'Validation error' answers only a body that broke a rule, never
\* a storage failure
StorageFailureIs500 ==
    /\ wire.ctx.failure # <<>>
          => (wire.status = 500 /\ wire.body.errors = <<wire.ctx.failure>>)
    /\ wire.ctx.nq <= 1
    /\ (wire.status = 400 /\ wire.body.message = <<"Validation error">>)
          => (wire.ctx.class = "breaks" /\ wire.ctx.failure = <<>>)

Holding == {s \in Slots : req[s].pc \in {"query", "release"}}

\* C4: the connections checked out are exactly those of the queries under way:
\* none is left out once the queries have finished, none is released unacquired
ConnectionsReleased ==
    /\ inUse = Cardinality(Holding)
    /\ inUse >= 0
    /\ (\A s \in Slots : req[s].pc = "idle") => inUse = 0

\* a query has just failed, every request has finished, nothing is checked out
ConnectionsReleasedWitness ==
    /\ wire.ctx.failure = <<"Connection terminated unexpectedly">>
    /\ wire.ctx.nq = 1
    /\ \A s \in Slots : req[s].pc = "idle"
    /\ inUse = 0
    /\ table # {}

\* C5: every response body has the five fields of the envelope
EveryResponseIsEnvelope ==
    wire # NoWire
        => wire.body.keys = {"success", "data", "message", "errors", "timestamp"}

\* C6: a GET, PUT or DELETE whose id is not numeric is answered 400 and sends no
\* query
NonNumericIdRefused ==
    (wire.ctx.op \in IdOps /\ ~wire.ctx.numeric)
        => (wire.status = 400 /\ wire.ctx.nq = 0)

SameRecord(item, o) ==
    /\ item.id = o.id
    /\ item.nome = o.nome
    /\ item.profissional = o.profissional
    /\ item.tipo = o.tipo
    /\ item.observacoes = o.observacoes

\* C7: a POST of a valid body is answered 201 with the sanitized input under an id
\* no other row holds, and a GET of that id, while the record is untouched,
\* returns the same record but for the format of the date
CreatedThenFetched ==
    /\ (wire.ctx.op = "create" /\ wire.ctx.class = "valid" /\ wire.ctx.failure = <<>>)
          => wire.status = 201
    /\ (wire.ctx.op = "create" /\ wire.status = 201)
          => /\ wire.body.success
             /\ wire.body.data.kind = "one"
             /\ wire.body.data.items[1].id > 0
             /\ SameRecord(wire.body.data.items[1], wire.ctx.orig)
    /\ \A r1 \in table, r2 \in table : r1.id = r2.id => r1 = r2
    /\ \A o \in orig : \E r \in table : SameRecord(r, o)
    /\ (wire.ctx.op = "findById" /\ wire.ctx.orig # NoRow /\ wire.ctx.failure = <<>>)
          => /\ wire.status = 200
             /\ wire.body.data.kind = "one"
             /\ SameRecord(wire.body.data.items[1], wire.ctx.orig)

\* the second record created, with its trimmed fields, has just been fetched
CreatedThenFetchedWitness ==
    /\ wire.ctx.op = "findById" /\ wire.status = 200
    /\ wire.ctx.orig # NoRow
    /\ wire.body.data.items[1].id = 2
    /\ wire.body.data.items[1].nome = <<"b">>
    /\ wire.body.data.items[1].observacoes = <<"c">>

\* C8: a DELETE whose id matches no row leaves the table as it was and is
\* answered 404
DeleteOfMissingId ==
    [][\A s \in Slots :
          /\ (req[s].pc = "query" /\ req[s].op = "delete" /\ req[s].id \notin Ids
              /\ req'[s].pc = "release" /\ req'[s].res.ok)
                => (table' = table /\ req'[s].res.rows = <<>> /\ ~req'[s].hit)
          /\ (req[s].pc = "release" /\ req[s].op = "delete" /\ ~req[s].hit
              /\ req[s].res.ok /\ req'[s].pc = "idle")
                => (wire'.status = 404 /\ ~wire'.body.success
                    /\ wire'.body.data = Null /\ table' = table)]_vars

\* a DELETE of an id that matched nothing has been answered while a row is stored
DeleteOfMissingIdWitness ==
    /\ wire.ctx.op = "delete" /\ wire.ctx.nq = 1 /\ ~wire.ctx.hit
    /\ wire.ctx.failure = <<>>
    /\ wire.status = 404
    /\ table # {}

\* C9: a deleted id is held by no row again, and a GET of it that the store
\* answers returns 404
DeletedStaysGone ==
    /\ gone \cap Ids = {}
    /\ (wire.ctx.op = "findById" /\ wire.ctx.wasGone)
          => wire.status \in {404, 500}
    /\ (wire.ctx.op = "findById" /\ wire.ctx.wasGone /\ wire.ctx.failure = <<>>)
          => wire.status = 404

\* a GET of a deleted id is answered 404 after a later create
DeletedStaysGoneWitness ==
    /\ wire.ctx.op = "findById" /\ wire.ctx.wasGone /\ wire.status = 404
    /\ table # {}
    /\ seq >= 2

DayNumber(ymd) == ymd[1] * 10000 + ymd[2] * 100 + ymd[3]

\* rows lists t: every row once, later dates first, higher ids first within a date
Lists(rows, t) ==
    /\ Len(rows) = Cardinality(t)
    /\ {rows[i] : i \in DOMAIN rows} = t
    /\ \A i \in DOMAIN rows, j \in DOMAIN rows :
          i < j => \/ DayNumber(rows[i].data) > DayNumber(rows[j].data)
                   \/ /\ DayNumber(rows[i].data) = DayNumber(rows[j].data)
                      /\ rows[i].id > rows[j].id

\* C10: findAll returns the rows of the table, each once, by data descending and
\* id descending, and GET /atendimentos answers with them in that order
FindAllOrdered ==
    [][\A s \in Slots :
          /\ (req[s].pc = "query" /\ req[s].op = "findAll"
              /\ req'[s].pc = "release" /\ req'[s].res.ok)
                => Lists(req'[s].res.rows, table)
          /\ (req[s].pc = "release" /\ req[s].op = "findAll" /\ req[s].res.ok
              /\ req'[s].pc = "idle")
                => /\ wire'.status = 200
                   /\ wire'.body.data.kind = "list"
                   /\ Len(wire'.body.data.items) = Len(req[s].res.rows)
                   /\ \A i \in DOMAIN req[s].res.rows :
                         /\ SameRecord(wire'.body.data.items[i], req[s].res.rows[i])
                         /\ wire'.body.data.items[i].data
                               = <<req[s].res.rows[i].data[3], req[s].res.rows[i].data[2],
                                   req[s].res.rows[i].data[1]>>]_vars

\* a list is answered in which the record inserted first, dated later, comes first
FindAllOrderedWitness ==
    /\ wire.ctx.op = "findAll" /\ wire.status = 200
    /\ Len(wire.body.data.items) = 2
    /\ wire.body.data.items[1].id < wire.body.data.items[2].id

\* the row an update of id by the sanitized body d is to leave
Replaced(id, d) ==
    [id |-> id, nome |-> d.nome.s, profissional |-> d.profissional.s,
     data |-> d.data.ymd, tipo |-> d.tipo, observacoes |-> d.observacoes.s]

\* C11: an update that matches a row replaces its five fields by the sanitized
\* input (an omitted observacoes becomes empty), keeps its id and leaves the other
\* rows as they were; one that matches no row changes nothing and is answered 404
UpdateReplacesRecord ==
    [][\A s \in Slots :
          /\ (req[s].pc = "query" /\ req[s].op = "update"
              /\ req'[s].pc = "release" /\ req'[s].res.ok)
                => IF req[s].id \in Ids
                   THEN /\ table' = {r \in table : r.id # req[s].id}
                                      \cup {Replaced(req[s].id, req[s].d)}
                        /\ req'[s].res.rows = <<Replaced(req[s].id, req[s].d)>>
                        /\ req'[s].hit
                        /\ \A f \in {"nome", "profissional", "observacoes"} :
                              req[s].d[f].s = <<>> \/ Trimmed(req[s].d[f].s)
                   ELSE /\ table' = table
                        /\ req'[s].res.rows = <<>>
                        /\ ~req'[s].hit
          /\ (req[s].pc = "release" /\ req[s].op = "update" /\ req[s].res.ok
              /\ req'[s].pc = "idle")
                => /\ table' = table
                   /\ IF req[s].hit
                      THEN /\ wire'.status = 200
                           /\ wire'.body.data.kind = "one"
                           /\ SameRecord(wire'.body.data.items[1], req[s].res.rows[1])
                      ELSE /\ wire'.status = 404
                           /\ wire'.body.data = Null]_vars

\* an update without observacoes has emptied the observacoes a record was created
\* with, while another record stands as it was created
UpdateReplacesRecordWitness ==
    /\ wire.ctx.op = "update" /\ wire.status = 200 /\ wire.ctx.hit
    /\ wire.ctx.orig.observacoes = <<"c">>
    /\ wire.body.data.items[1].id = wire.ctx.orig.id
    /\ wire.body.data.items[1].observacoes = <<>>
    /\ wire.body.data.items[1].nome = <<"a">>
    /\ \E o \in orig : o.id # wire.ctx.orig.id /\ o.observacoes = <<"c">>

\* the rules of the record an object breaks: a required text missing or blank, no
\* data, a tipo missing or outside the three values
RulesBroken(x) ==
    {f \in {"nome", "profissional"} :
        x[f].t = "undef" \/ (x[f].t = "str" /\ Trim(x[f].s) = <<>>)}
    \cup (IF x.data.k = "absent" THEN {"data"} ELSE {})
    \cup (IF x.tipo \notin TheThreeTipos THEN {"tipo"} ELSE {})

\* C12: validate returns isValid = false with one message per rule broken for
\* every input that breaks a rule, and isValid = true with no message exactly when
\* no rule is broken
ValidateCountsRules ==
    calc.fn = "validate"
        => /\ ~calc.out.thrown
           /\ calc.out.value.isValid = (RulesBroken(calc.x) = {})
           /\ Len(calc.out.value.errors) = Cardinality(RulesBroken(calc.x))

\* C13: a create or update whose nome, profissional or observacoes is a value that
\* is not a string is answered by the validation path, never as a 500 raised
\* before any query
UntypedAnsweredByValidation ==
    (wire.ctx.op \in WriteOps /\ wire.ctx.class = "untyped" /\ wire.ctx.nq = 0)
        => wire.status # 500

\* C14: sanitize applied to its own result changes none of the five fields: it
\* returns the same record, and throws only where the first call threw
SanitizeIdempotent ==
    calc.fn = "sanitize twice"
        => IF calc.first.thrown THEN calc.out.thrown
           ELSE /\ ~calc.out.thrown
                /\ \A f \in {"nome", "profissional", "data", "tipo", "observacoes"} :
                      calc.out.value[f] = calc.first.value[f]

\* sanitize has been applied twice to a nome with spaces on both sides
SanitizeIdempotentWitness ==
    /\ calc.fn = "sanitize twice"
    /\ calc.x.nome = Str(<<" ", " ", "a", " ">>)
    /\ calc.x.observacoes = Str(<<" ", " ", "c">>)
    /\ ~calc.out.thrown
    /\ calc.out.value.nome = Str(<<"a">>)
    /\ calc.out.value.observacoes = Str(<<"c">>)

\* slot s has its query answered with rows in this step
Executes(s, op) ==
    /\ req[s].pc = "query" /\ req[s].op = op
    /\ req'[s].pc = "release" /\ req'[s].res.ok

\* slot s is answered in this step, its query having returned rows
Answers(s, op) ==
    /\ req[s].pc = "release" /\ req[s].op = op /\ req[s].res.ok
    /\ req'[s].pc = "idle"

\* C15: with requests in flight together each query takes effect in one step on
\* the table as it then is, whatever the other requests are doing: a DELETE
\* matches its row only if no earlier DELETE did, so of two DELETEs of one id at
\* most one is answered 200 and the other 404, and neither an UPDATE nor anything
\* else brings back a row reported deleted
ConcurrentQueriesSerialize ==
    [][/\ gone \subseteq gone'
       /\ gone' \cap {r.id : r \in table'} = {}
       /\ \A s \in Slots :
             /\ Executes(s, "delete")
                   => /\ req'[s].hit = (req[s].id \in Ids)
                      /\ req'[s].hit => (req[s].id \notin gone /\ req[s].id \in gone')
                      /\ table' = {r \in table : r.id # req[s].id}
                      /\ \A o \in Slots \ {s} : req'[o] = req[o]
             /\ Executes(s, "update")
                   => /\ req'[s].hit = (req[s].id \in Ids)
                      /\ req[s].id \in gone => (~req'[s].hit /\ table' = table)
                      /\ {r.id : r \in table'} = Ids
                      /\ \A o \in Slots \ {s} : req'[o] = req[o]
             /\ (Answers(s, "delete") \/ Answers(s, "update"))
                   => /\ wire'.status = IF req[s].hit THEN 200 ELSE 404
                      /\ table' = table
       /\ \A s \in Slots, o \in Slots :
             (/\ s # o
              /\ req[s].op = "delete" /\ req[o].op = "delete"
              /\ req[s].pc = "release" /\ req[o].pc = "release"
              /\ req[s].id = req[o].id)
                => ~(req[s].hit /\ req[o].hit)]_vars

\* two DELETEs of the same id hold a connection each, their queries answered: one
\* matched the row, the other none
ConcurrentQueriesSerializeWitness ==
    \E s \in Slots, o \in Slots :
        /\ req[s].op = "delete" /\ req[o].op = "delete"
        /\ req[s].pc = "release" /\ req[o].pc = "release"
        /\ req[s].id = req[o].id
        /\ req[s].res.ok /\ req[o].res.ok
        /\ req[s].hit /\ ~req[o].hit
        /\ inUse = 2

\* C16: on a termination signal the server ends the pool the requests run their
\* queries through before it exits with status 0, and once the close has started
\* no request acquires a connection
ShutdownClosesRequestPool ==
    [][/\ proc' = "exit 0" => ModelPool \in ended'
       /\ proc # "running"
             => \A s \in Slots : ~(req[s].pc = "connect" /\ req'[s].pc = "query")]_vars

\* C17: a request handed to a handler is answered, and answered once: it leaves
\* the server only in a step that writes one response, for it and for no other
\* request, and every request under way comes to that step
EveryRequestAnsweredOnce ==
    /\ [][\A s \in Slots :
             (req[s].pc # "idle" /\ req'[s].pc = "idle")
                => /\ wire = NoWire /\ wire' # NoWire
                   /\ wire'.ctx.op = req[s].op
                   /\ wire'.status \in {200, 201, 400, 404, 500}
                   /\ \A o \in Slots \ {s} : req'[o] = req[o]]_vars
    /\ \A s \in Slots : (req[s].pc # "idle") ~> (req[s].pc = "idle")

\* a failure of the store has been answered 500 while another request waits for
\* its query
EveryRequestAnsweredOnceWitness ==
    /\ wire.status = 500 /\ wire.ctx.nq = 1
    /\ wire.ctx.failure = <<"Connection terminated unexpectedly">>
    /\ \E s \in Slots : req[s].pc = "query"

\* C18: a PUT is checked in a fixed order: an id that is not a number is answered
\* 400 'Invalid ID parameter' whatever the body; otherwise a body that breaks a
\* rule is answered 400 'Validation error' whether or not the id matches a row;
\* 404 answers only a valid body whose id matched no row; none of the first two
\* sends a query
PutChecksInOrder ==
    wire.ctx.op = "update"
        => /\ ~wire.ctx.numeric
                 => /\ wire.status = 400
                    /\ wire.body.message = <<"Invalid ID parameter">>
                    /\ wire.ctx.nq = 0
           /\ (wire.ctx.numeric /\ wire.ctx.class = "breaks")
                 => /\ wire.status = 400
                    /\ wire.body.message = <<"Validation error">>
                    /\ wire.ctx.nq = 0
           /\ wire.status = 404
                 => /\ wire.ctx.numeric
                    /\ wire.ctx.class # "breaks"
                    /\ ~wire.ctx.hit

\* C19: a record opened in the edit form shows in the date field the date that is
\* stored, and saving the form as it was filled leaves the stored record as it was
EditWithoutChangeKeepsRecord ==
    /\ client.at = "form"
          => (~client.threw /\ client.form.data.ymd = client.stored.data)
    /\ client.at = "saved" => table = {client.stored}

====
